---- MODULE Spec2Model ----
(***************************************************************************)
(* The PIX payment payload encoder of school_hub                           *)
(* (src/apps/core/services/pix.py, class PixService).                      *)
(*                                                                         *)
(* A Python str is modelled as a sequence of Unicode code points           *)
(* (naturals); len() is Len, slicing is SubSeq and + is \o.  The code      *)
(* points the model distinguishes are ASCII, Latin-1, the combining marks  *)
(* U+0300..U+036F and the Arabic-Indic digits U+0660..U+0669.              *)
(***************************************************************************)
EXTENDS Integers, Sequences, FiniteSets, TLC

VARIABLES
    svc,      \* the PixService instance: pix_key, merchant_name, merchant_city
    op,       \* the method the last call ran ("" right after construction)
    args,     \* the arguments of that call
    ret,      \* the str it returned
    raised,   \* the exception it raised ("" when it returned)
    fields,   \* the top-level EMV fields generate_pix_code appended, in order
    chained,  \* TRUE when the call's argument is what the call before returned
    calls,    \* per thread, the call it is running on the shared instance
    db,       \* the rows of the site's database: guardians, event, members,
              \* payments, invitation
    now,      \* timezone.now(), as before or after the invitation's expires_at
    requests  \* per request being served, its view, its user and its locals

\* The state of the PIX service and of its callers, and the state of the site.
pixVars == <<svc, op, args, ret, raised, fields, chained, calls>>
siteVars == <<db, now, requests>>

vars == <<svc, op, args, ret, raised, fields, chained, calls, db, now, requests>>

----------------------------------------------------------------------------
(* Text: literals and character classes.                                   *)

\* The printable ASCII characters a literal of the model may hold, with the code
\* point of the first of each run: U+0020..U+005F and U+0061..U+007E.
AsciiLow == " !\"#$%&'()*+,-./0123456789:;<=>?@ABCDEFGHIJKLMNOPQRSTUVWXYZ[\\]^_"
AsciiHigh == "abcdefghijklmnopqrstuvwxyz{|}~"

OrdTable ==
    [c \in {SubSeq(AsciiLow, i, i) : i \in 1..Len(AsciiLow)}
            \cup {SubSeq(AsciiHigh, i, i) : i \in 1..Len(AsciiHigh)} |->
        IF \E i \in 1..Len(AsciiLow) : SubSeq(AsciiLow, i, i) = c
        THEN (CHOOSE i \in 1..Len(AsciiLow) : SubSeq(AsciiLow, i, i) = c) + 31
        ELSE (CHOOSE i \in 1..Len(AsciiHigh) : SubSeq(AsciiHigh, i, i) = c) + 96]

\* The code points of an ASCII literal.
S(lit) == [i \in 1..Len(lit) |-> OrdTable[SubSeq(lit, i, i)]]

\* c * n: the one-character string c repeated n times.
Repeat(c, n) == [i \in 1..n |-> c]

RECURSIVE ConcatRange(_, _, _)
\* "".join(parts[lo..hi]), by halves
ConcatRange(parts, lo, hi) ==
    IF lo > hi THEN <<>>
    ELSE IF lo = hi THEN parts[lo]
    ELSE ConcatRange(parts, lo, (lo + hi) \div 2)
         \o ConcatRange(parts, ((lo + hi) \div 2) + 1, hi)

\* "".join(parts)
Concat(parts) == ConcatRange(parts, 1, Len(parts))

\* s[i:] (0-based i, as in Python)
From(s, i) == SubSeq(s, i + 1, Len(s))

\* s[:n]
Take(s, n) == SubSeq(s, 1, IF n < Len(s) THEN n ELSE Len(s))

\* s.startswith(p)
StartsWith(s, p) == Len(s) >= Len(p) /\ SubSeq(s, 1, Len(p)) = p

\* s.endswith(p)
EndsWith(s, p) ==
    Len(s) >= Len(p) /\ SubSeq(s, Len(s) - Len(p) + 1, Len(s)) = p

\* c in s
Contains(s, c) == \E i \in 1..Len(s) : s[i] = c

IsUpperAscii(c) == c \in 65..90
IsLowerAscii(c) == c \in 97..122
IsAsciiDigit(c) == c \in 48..57
IsAsciiAlnum(c) == IsUpperAscii(c) \/ IsLowerAscii(c) \/ IsAsciiDigit(c)

\* re [a-fA-F0-9]
IsHex(c) == IsAsciiDigit(c) \/ c \in 65..70 \/ c \in 97..102

\* re \d on a str pattern: every Unicode decimal digit (category Nd).
IsDigit(c) == IsAsciiDigit(c) \/ c \in 1632..1641

\* int() of one decimal digit
DigitVal(c) == IF IsAsciiDigit(c) THEN c - 48 ELSE c - 1632

\* str.isspace(): what str.strip() and str.split() take for whitespace.
IsSpace(c) == c \in (9..13) \cup (28..32) \cup {133, 160}

\* unicodedata.category(c) == "Mn" (the combining diacritical marks)
IsMn(c) == c \in 768..879

\* str.lower() of one character
LowerChar(c) ==
    IF IsUpperAscii(c) THEN c + 32
    ELSE IF c \in 192..222 /\ c # 215 THEN c + 32
    ELSE c

\* str.upper() of one character (U+00DF, U+00B5 and U+00FF, whose upper case
\* lies outside Latin-1, never reach it: both callers delete every non-ASCII
\* character first)
UpperChar(c) ==
    IF IsLowerAscii(c) THEN c - 32
    ELSE IF c \in 224..254 /\ c # 247 THEN c - 32
    ELSE c

Lower(s) == [i \in 1..Len(s) |-> LowerChar(s[i])]
Upper(s) == [i \in 1..Len(s) |-> UpperChar(s[i])]

RECURSIVE LStrip(_)
LStrip(s) ==
    IF s # <<>> /\ IsSpace(Head(s)) THEN LStrip(Tail(s)) ELSE s

RECURSIVE RStrip(_)
RStrip(s) ==
    IF s # <<>> /\ IsSpace(s[Len(s)]) THEN RStrip(SubSeq(s, 1, Len(s) - 1))
    ELSE s

\* str.strip()
Strip(s) == RStrip(LStrip(s))

RECURSIVE DecStr(_)
\* str(n) for n >= 0
DecStr(n) ==
    IF n < 10 THEN <<48 + n>> ELSE DecStr(n \div 10) \o <<48 + (n % 10)>>

\* str.zfill(width)
Zfill(s, width) ==
    IF Len(s) >= width THEN s ELSE Repeat(48, width - Len(s)) \o s

\* The UTF-8 bytes of one code point below U+0800
Utf8Char(c) ==
    IF c < 128 THEN <<c>> ELSE <<192 + (c \div 64), 128 + (c % 64)>>

\* str.encode("utf-8")
Utf8(s) == Concat([i \in 1..Len(s) |-> Utf8Char(s[i])])

----------------------------------------------------------------------------
(* Regular expressions: the patterns of _normalize_pix_key are sequences   *)
(* of one-character tokens, some optional; an optional token is always a   *)
(* punctuation mark followed by a \d token, so taking it whenever it is    *)
(* there decides the match.                                                *)

D == [cls |-> "digit", ch |-> 0, opt |-> FALSE]
H == [cls |-> "hex", ch |-> 0, opt |-> FALSE]
Lit(c) == [cls |-> "lit", ch |-> OrdTable[c], opt |-> FALSE]
Opt(c) == [cls |-> "lit", ch |-> OrdTable[c], opt |-> TRUE]

TokenMatches(tok, c) ==
    CASE tok.cls = "digit" -> IsDigit(c)
      [] tok.cls = "hex" -> IsHex(c)
      [] OTHER -> c = tok.ch

RECURSIVE FullMatch(_, _)
\* re.match("^" + pat + "$", s), for s without a trailing newline
FullMatch(s, pat) ==
    IF pat = <<>> THEN s = <<>>
    ELSE IF s # <<>> /\ TokenMatches(Head(pat), Head(s))
         THEN FullMatch(Tail(s), Tail(pat))
         ELSE Head(pat).opt /\ FullMatch(s, Tail(pat))

\* r"^[a-fA-F0-9]{8}-[a-fA-F0-9]{4}-[a-fA-F0-9]{4}-[a-fA-F0-9]{4}-[a-fA-F0-9]{12}$"
uuid_pattern ==
    Repeat(H, 8) \o <<Lit("-")>> \o Repeat(H, 4) \o <<Lit("-")>> \o Repeat(H, 4)
        \o <<Lit("-")>> \o Repeat(H, 4) \o <<Lit("-")>> \o Repeat(H, 12)

\* r"^\d{3}\.\d{3}\.\d{3}-\d{2}$"
cpf_formatted_pattern ==
    <<D, D, D, Lit("."), D, D, D, Lit("."), D, D, D, Lit("-"), D, D>>

\* The CNPJ pattern with every punctuation mark required
cnpj_pattern_with_punctuation ==
    <<D, D, Lit("."), D, D, D, Lit("."), D, D, D, Lit("/"), D, D, D, D,
      Lit("-"), D, D>>

\* r"^\d{2}\.?\d{3}\.?\d{3}/?\d{4}-?\d{2}$"
cnpj_pattern ==
    <<D, D, Opt("."), D, D, D, Opt("."), D, D, D, Opt("/"), D, D, D, D,
      Opt("-"), D, D>>

----------------------------------------------------------------------------
(* The normalizers.                                                        *)

\* The NFD decomposition of one character with its combining marks dropped:
\* the Latin-1 letters that carry a diacritic give their base letter.
BaseChar(c) ==
    CASE c \in 192..197 -> 65
      [] c = 199 -> 67
      [] c \in 200..203 -> 69
      [] c \in 204..207 -> 73
      [] c = 209 -> 78
      [] c \in 210..214 -> 79
      [] c \in 217..220 -> 85
      [] c = 221 -> 89
      [] c \in 224..229 -> 97
      [] c = 231 -> 99
      [] c \in 232..235 -> 101
      [] c \in 236..239 -> 105
      [] c = 241 -> 110
      [] c \in 242..246 -> 111
      [] c \in 249..252 -> 117
      [] c \in {253, 255} -> 121
      [] OTHER -> c

NotMn(c) == ~IsMn(c)

\* PixService._remove_accents
remove_accents(text) ==
    SelectSeq([i \in 1..Len(text) |-> BaseChar(text[i])], NotMn)

\* digits_only[:2] read by int()
Ddd(digits_only) == 10 * DigitVal(digits_only[1]) + DigitVal(digits_only[2])

\* looks_like_br_phone with the DDD taken from 10 up, not from 11
looks_like_br_phone_ddd_from_10(digits_only) ==
    IF Len(digits_only) = 11 /\ digits_only[3] = 57
    THEN Ddd(digits_only) >= 10 /\ Ddd(digits_only) <= 99
    ELSE IF Len(digits_only) = 10
         THEN Ddd(digits_only) >= 10 /\ Ddd(digits_only) <= 99
         ELSE FALSE

\* looks_like_br_phone as lines 147-157 set it
looks_like_br_phone(digits_only) ==
    IF Len(digits_only) = 11 /\ digits_only[3] = 57
    THEN Ddd(digits_only) >= 11 /\ Ddd(digits_only) <= 99
    ELSE IF Len(digits_only) = 10
         THEN Ddd(digits_only) >= 11 /\ Ddd(digits_only) <= 99
         ELSE FALSE

\* digits_only.startswith("55") and len(digits_only) >= 12
HasCountryCode(digits_only) ==
    StartsWith(digits_only, <<53, 53>>) /\ Len(digits_only) >= 12

\* key.startswith("+")
has_plus(key) == StartsWith(key, <<43>>)

\* re.search(r"[\(\)]", key)
has_parentheses(key) == Contains(key, 40) \/ Contains(key, 41)

is_phone(key, digits_only) ==
    \/ has_plus(key)
    \/ has_parentheses(key)
    \/ HasCountryCode(digits_only)
    \/ looks_like_br_phone(digits_only)

\* f"{hex_only[:8]}-{hex_only[8:12]}-{hex_only[12:16]}-{hex_only[16:20]}-{hex_only[20:]}"
Hyphenate(hex_only) ==
    SubSeq(hex_only, 1, 8) \o <<45>> \o SubSeq(hex_only, 9, 12) \o <<45>>
        \o SubSeq(hex_only, 13, 16) \o <<45>> \o SubSeq(hex_only, 17, 20)
        \o <<45>> \o From(hex_only, 20)

\* The body of _normalize_pix_key with the phone heuristic tried before the
\* formatted-CPF rule
NormalizeStripped_phone_before_cpf(key) ==
    LET hex_only == SelectSeq(key, IsHex)
        digits_only == SelectSeq(key, IsDigit)
    IN  IF Contains(key, 64) THEN Lower(key)
        ELSE IF FullMatch(key, uuid_pattern) THEN Lower(key)
        ELSE IF Len(hex_only) = 32 /\ key # <<>> /\ hex_only = key
             THEN Lower(Hyphenate(hex_only))
        ELSE IF is_phone(key, digits_only) /\ digits_only # <<>>
             THEN IF has_plus(key) \/ HasCountryCode(digits_only)
                  THEN <<43>> \o digits_only
                  ELSE S("+55") \o digits_only
        ELSE IF FullMatch(key, cpf_formatted_pattern) /\ Len(digits_only) = 11
             THEN digits_only
        ELSE IF FullMatch(key, cnpj_pattern) /\ Len(digits_only) = 14
             THEN digits_only
        ELSE IF Len(digits_only) = 14 THEN digits_only
        ELSE IF Len(digits_only) = 11 THEN digits_only
        ELSE key

\* The body of _normalize_pix_key after key = key.strip().
NormalizeStripped(key) ==
    LET hex_only == SelectSeq(key, IsHex)
        digits_only == SelectSeq(key, IsDigit)
    IN  IF Contains(key, 64) THEN Lower(key)
        ELSE IF FullMatch(key, uuid_pattern) THEN Lower(key)
        ELSE IF Len(hex_only) = 32 /\ key # <<>> /\ hex_only = key
             THEN Lower(Hyphenate(hex_only))
        ELSE IF FullMatch(key, cpf_formatted_pattern) /\ Len(digits_only) = 11
             THEN digits_only
        ELSE IF FullMatch(key, cnpj_pattern) /\ Len(digits_only) = 14
             THEN digits_only
        ELSE IF is_phone(key, digits_only) /\ digits_only # <<>>
             THEN IF has_plus(key) \/ HasCountryCode(digits_only)
                  THEN <<43>> \o digits_only
                  ELSE IF Len(digits_only) = 11 THEN S("+55") \o digits_only
                  ELSE IF Len(digits_only) = 10 THEN S("+55") \o digits_only
                  ELSE S("+55") \o digits_only
        ELSE IF Len(digits_only) = 14 THEN digits_only
        ELSE IF Len(digits_only) = 11 THEN digits_only
        ELSE key

\* _normalize_pix_key with the phone heuristic tried before every other rule
normalize_pix_key_phone_first(key) ==
    LET stripped == Strip(key)
        digits_only == SelectSeq(stripped, IsDigit)
    IN  IF key = <<>> THEN <<>>
        ELSE IF is_phone(stripped, digits_only) /\ digits_only # <<>>
             THEN IF has_plus(stripped) \/ HasCountryCode(digits_only)
                  THEN <<43>> \o digits_only
                  ELSE S("+55") \o digits_only
        ELSE NormalizeStripped(stripped)

\* PixService._normalize_pix_key
normalize_pix_key(key) ==
    IF key = <<>> THEN <<>> ELSE NormalizeStripped(Strip(key))

RECURSIVE Split(_)
\* value.split(): the words of value, runs of whitespace between them
Split(value) ==
    LET s == LStrip(value)
        n == IF \E i \in 1..Len(s) : IsSpace(s[i])
             THEN (CHOOSE i \in 1..Len(s) :
                      IsSpace(s[i]) /\ \A j \in 1..(i - 1) : ~IsSpace(s[j])) - 1
             ELSE Len(s)
    IN  IF s = <<>> THEN <<>>
        ELSE <<SubSeq(s, 1, n)>> \o Split(From(s, n))

RECURSIVE Join(_, _)
\* sep.join(words)
Join(sep, words) ==
    IF words = <<>> THEN <<>>
    ELSE IF Len(words) = 1 THEN Head(words)
    ELSE Head(words) \o sep \o Join(sep, Tail(words))

\* re [a-zA-Z0-9 ]
IsAlnumOrSpace(c) == IsAsciiAlnum(c) \/ c = 32

\* _normalize_text without " ".join(value.split())
normalize_text_without_collapse(value, max_length) ==
    IF value = <<>> THEN <<>>
    ELSE Take(Upper(SelectSeq(remove_accents(value), IsAlnumOrSpace)),
              max_length)

\* PixService._normalize_text
normalize_text(value, max_length) ==
    IF value = <<>> THEN <<>>
    ELSE Take(Upper(Join(<<32>>,
                 Split(SelectSeq(remove_accents(value), IsAlnumOrSpace)))),
              max_length)

\* _normalize_txid returning the cleaned id even when it is empty
normalize_txid_without_sentinel(value, max_length) ==
    Take(Upper(SelectSeq(remove_accents(value), IsAsciiAlnum)), max_length)

\* PixService._normalize_txid
normalize_txid(value, max_length) ==
    LET result == Take(Upper(SelectSeq(remove_accents(value), IsAsciiAlnum)),
                       max_length)
    IN  IF value = <<>> THEN S("***")
        ELSE IF result # <<>> THEN result ELSE S("***")

----------------------------------------------------------------------------
(* The EMV payload builder.                                                *)

\* EMV tag ids and the GUI of PIX (class attributes of PixService)
PAYLOAD_FORMAT_INDICATOR == S("00")
MERCHANT_ACCOUNT_INFO == S("26")
MERCHANT_CATEGORY_CODE == S("52")
TRANSACTION_CURRENCY == S("53")
TRANSACTION_AMOUNT == S("54")
COUNTRY_CODE == S("58")
MERCHANT_NAME == S("59")
MERCHANT_CITY == S("60")
ADDITIONAL_DATA_FIELD == S("62")
CRC16 == S("63")
PIX_GUI == S("br.gov.bcb.pix")

\* a or b, on str
OrElse(a, b) == IF a # <<>> THEN a ELSE b

\* PixService._format_emv_field
format_emv_field(tag, value) == tag \o Zfill(DecStr(Len(value)), 2) \o value

\* An EMV field the builder appends: its tag, its value and, for a composite
\* field, the subfields its value is made of.
Field(tag, value) == [tag |-> tag, value |-> value, sub |-> <<>>]

\* The serialization of a sequence of fields, one _format_emv_field each.
Serialize(fs) ==
    Concat([i \in 1..Len(fs) |-> format_emv_field(fs[i].tag, fs[i].value)])

Composite(tag, subs) == [tag |-> tag, value |-> Serialize(subs), sub |-> subs]

\* _build_merchant_account_info appending subfield 02 whenever a description
\* was given, empty after normalization or not
build_merchant_account_info_always_description(self, payload) ==
    LET gui == Field(S("00"), PIX_GUI)
        key == Field(S("01"),
                     normalize_pix_key(OrElse(payload.pix_key, self.pix_key)))
        description == normalize_text(payload.description, 25)
    IN  Composite(MERCHANT_ACCOUNT_INFO,
            <<gui, key>> \o
            (IF payload.description # <<>>
             THEN <<Field(S("02"), description)>> ELSE <<>>))

\* PixService._build_merchant_account_info: the tag-26 field
build_merchant_account_info(self, payload) ==
    LET gui == Field(S("00"), PIX_GUI)
        key == Field(S("01"),
                     normalize_pix_key(OrElse(payload.pix_key, self.pix_key)))
        description == normalize_text(payload.description, 25)
    IN  Composite(MERCHANT_ACCOUNT_INFO,
            <<gui, key>> \o
            (IF payload.description # <<>> /\ description # <<>>
             THEN <<Field(S("02"), description)>> ELSE <<>>))

\* PixService._build_additional_data_field: the tag-62 field
build_additional_data_field(payload) ==
    Composite(ADDITIONAL_DATA_FIELD,
              <<Field(S("05"), normalize_txid(payload.transaction_id, 25))>>)

RECURSIVE XorBits(_, _)
\* a ^ b on non-negative ints, bit by bit
XorBits(a, b) ==
    IF a = 0 THEN b
    ELSE IF b = 0 THEN a
    ELSE ((a + b) % 2) + 2 * XorBits(a \div 2, b \div 2)

\* a ^ b for a, b < 16, and for a, b < 256
XorNibble == [a \in 0..15 |-> [b \in 0..15 |-> XorBits(a, b)]]
XorByte ==
    [a \in 0..255 |-> [b \in 0..255 |->
        16 * XorNibble[a \div 16][b \div 16] + XorNibble[a % 16][b % 16]]]

\* a ^ b for a, b < 2^24 (the register shifted left once has 17 bits)
Xor(a, b) ==
    65536 * XorByte[a \div 65536][b \div 65536]
    + 256 * XorByte[(a \div 256) % 256][(b \div 256) % 256]
    + XorByte[a % 256][b % 256]

RECURSIVE CrcShift(_, _)
\* the inner loop of _calculate_crc16, n more of its 8 iterations:
\*   if crc & 0x8000: crc = (crc << 1) ^ polynomial
\*   else: crc <<= 1
\*   crc &= 0xFFFF
CrcShift(crc, n) ==
    IF n = 0 THEN crc
    ELSE IF (crc \div 32768) % 2 = 1
         THEN CrcShift(Xor(crc * 2, 4129) % 65536, n - 1)
         ELSE CrcShift((crc * 2) % 65536, n - 1)

\* one pass of the outer loop of _calculate_crc16: crc ^= byte << 8, then the
\* 8 shifts
CrcByte(crc, byte) == CrcShift(Xor(crc, byte * 256), 8)

RECURSIVE CrcBytes(_, _, _, _)
\* the outer loop of _calculate_crc16 over data[lo..hi], left to right: the
\* range is halved, and the register read between the halves, only to bound
\* the depth of the evaluation
CrcBytes(crc, data, lo, hi) ==
    IF lo > hi THEN crc
    ELSE IF lo = hi THEN CrcByte(crc, data[lo])
    ELSE LET left == CrcBytes(crc, data, lo, (lo + hi) \div 2)
         IN  IF left >= 0
             THEN CrcBytes(left, data, ((lo + hi) \div 2) + 1, hi)
             ELSE left

HexDigits == S("0123456789ABCDEF")

\* format(crc, "04X")
RECURSIVE HexStr(_)
\* format(n, "X")
HexStr(n) ==
    IF n < 16 THEN <<HexDigits[n + 1]>>
    ELSE HexStr(n \div 16) \o <<HexDigits[(n % 16) + 1]>>

\* format(n, "X"): no zero padding
Hex04_unpadded(n) == HexStr(n)

\* format(n, "04X")
Hex04(n) == Zfill(HexStr(n), 4)

\* _calculate_crc16 with the checksum taken over the payload alone, the
\* placeholder "6304" left out
calculate_crc16_without_placeholder(payload) ==
    LET data == Utf8(payload)
    IN  Hex04(CrcBytes(65535, data, 1, Len(data)))

\* PixService._calculate_crc16
calculate_crc16(payload) ==
    LET data == Utf8(payload \o CRC16 \o S("04"))
    IN  Hex04(CrcBytes(65535, data, 1, Len(data)))

\* An amount: None, or a Decimal held as its number of thousandths.
NoneAmount == <<>>
Dec(thousandths) == <<thousandths>>

\* amount is not None and amount > 0
AmountIsPositive(amount) == amount # NoneAmount /\ amount[1] > 0

\* The hundredths of a non-negative number of thousandths, rounded half-even
\* as format does.
RoundCents(thousandths) ==
    LET q == thousandths \div 10
        r == thousandths % 10
    IN  IF r > 5 \/ (r = 5 /\ q % 2 = 1) THEN q + 1 ELSE q

\* f"{amount:.2f}" with the cents written without their leading zero
FormatAmount_unpadded_cents(amount) ==
    LET cents == RoundCents(IF amount[1] < 0 THEN -amount[1] ELSE amount[1])
    IN  (IF amount[1] < 0 THEN <<45>> ELSE <<>>)
        \o DecStr(cents \div 100) \o <<46>> \o DecStr(cents % 100)

\* f"{amount:.2f}"
FormatAmount(amount) ==
    LET cents == RoundCents(IF amount[1] < 0 THEN -amount[1] ELSE amount[1])
    IN  (IF amount[1] < 0 THEN <<45>> ELSE <<>>)
        \o DecStr(cents \div 100) \o <<46>> \o Zfill(DecStr(cents % 100), 2)

\* The PixPayload generate_pix_code builds from its arguments.
PixPayload(self, amount, description, transaction_id, pix_key) ==
    [pix_key |-> OrElse(pix_key, self.pix_key),
     merchant_name |-> self.merchant_name,
     merchant_city |-> self.merchant_city,
     amount |-> amount,
     description |-> description,
     transaction_id |-> transaction_id]

\* The fields generate_pix_code appends before the amount: 00, 26, 52, 53.
LeadingFields(self, payload) ==
    <<Field(PAYLOAD_FORMAT_INDICATOR, S("01")),
      build_merchant_account_info(self, payload),
      Field(MERCHANT_CATEGORY_CODE, S("0000")),
      Field(TRANSACTION_CURRENCY, S("986"))>>

\* AmountFields with the test amount != 0 for amount > 0
AmountFields_nonzero(amount) ==
    IF amount # NoneAmount /\ amount[1] # 0
    THEN <<Field(TRANSACTION_AMOUNT, FormatAmount(amount))>>
    ELSE <<>>

\* AmountFields with the test amount is not None alone
AmountFields_given(amount) ==
    IF amount # NoneAmount
    THEN <<Field(TRANSACTION_AMOUNT, FormatAmount(amount))>>
    ELSE <<>>

\* The tag-54 field, appended if amount is not None and amount > 0.
AmountFields(amount) ==
    IF AmountIsPositive(amount)
    THEN <<Field(TRANSACTION_AMOUNT, FormatAmount(amount))>>
    ELSE <<>>

\* TrailingFields with the name and the city taken from the payload alone,
\* without the fallbacks "PAGAMENTO" and "BRASIL"
TrailingFields_without_fallback(self, payload) ==
    <<Field(COUNTRY_CODE, S("BR")),
      Field(MERCHANT_NAME, payload.merchant_name),
      Field(MERCHANT_CITY, payload.merchant_city),
      build_additional_data_field(payload)>>

\* The fields appended after the amount: 58, 59, 60, 62.
TrailingFields(self, payload) ==
    <<Field(COUNTRY_CODE, S("BR")),
      Field(MERCHANT_NAME,
            OrElse(payload.merchant_name,
                   OrElse(self.merchant_name, S("PAGAMENTO")))),
      Field(MERCHANT_CITY,
            OrElse(payload.merchant_city,
                   OrElse(self.merchant_city, S("BRASIL")))),
      build_additional_data_field(payload)>>

\* PayloadFields with the point-of-initiation field (tag 01, "11") appended
\* after the payload format indicator
PayloadFields_with_point_of_initiation(self, payload) ==
    <<LeadingFields(self, payload)[1], Field(S("01"), S("11"))>>
    \o Tail(LeadingFields(self, payload))
    \o AmountFields(payload.amount)
    \o TrailingFields(self, payload)

\* The fields generate_pix_code appends to result before the CRC, in order.
PayloadFields(self, payload) ==
    LeadingFields(self, payload)
    \o AmountFields(payload.amount)
    \o TrailingFields(self, payload)

\* what one generate_pix_code call appends and returns
GenerateRun(self, amount, description, transaction_id, pix_key) ==
    LET fs == PayloadFields(self,
                  PixPayload(self, amount, description, transaction_id, pix_key))
        result == Serialize(fs)
        crc == calculate_crc16(result)
    IN  [fields |-> fs \o <<Field(CRC16, crc)>>,
         result |-> result \o CRC16 \o S("04") \o crc]

\* PixService.generate_pix_code
generate_pix_code(self, amount, description, transaction_id, pix_key) ==
    GenerateRun(self, amount, description, transaction_id, pix_key).result

\* The instance after payload = PixPayload(...), had that statement stored
\* the call's key in self.pix_key
SelfAfterPayload_storing_key(self, payload) ==
    [self EXCEPT !.pix_key = payload.pix_key]

\* The instance after payload = PixPayload(...): its attributes are read,
\* none is assigned.
SelfAfterPayload(self, payload) == self

\* The PNG bytes generate_qr_code returns: the image qrcode draws of pix_code
\* with error correction M, box size 10 and border 4.
QrPng(pix_code) ==
    [format |-> "PNG", error_correction |-> "M", box_size |-> 10, border |-> 4,
     data |-> pix_code]

\* generate_qr_code calling generate_pix_code without the pix_key it was given
generate_qr_code_without_key(self, amount, description, transaction_id, pix_key) ==
    QrPng(generate_pix_code(self, amount, description, transaction_id, <<>>))

\* PixService.generate_qr_code
generate_qr_code(self, amount, description, transaction_id, pix_key) ==
    QrPng(generate_pix_code(self, amount, description, transaction_id, pix_key))

\* PixService.__init__
PixService(pix_key, merchant_name, merchant_city) ==
    [pix_key |-> pix_key,
     merchant_name |-> normalize_text(merchant_name, 25),
     merchant_city |-> normalize_text(merchant_city, 15)]

\* base64.b64encode(data).decode("utf-8")
Base64(data) == [base64 |-> data]

\* a or b, on Decimal | None: None and 0 give b
AmountOrElse(a, b) == IF a # NoneAmount /\ a[1] # 0 THEN a ELSE b

\* EventPixView.get_context_data: the entries it adds to the context
get_context_data(event) ==
    LET pix_service == PixService(event.pix_key,
                                  OrElse(event.pix_holder_name, S("SCHOOL HUB")),
                                  S("SAO PAULO"))
        amount == AmountOrElse(event.individual_amount, Dec(0))
        txid == Take(event.id_hex, 25)
    IN  IF event.pix_key # <<>>
        THEN [event |-> event,
              pix_code |-> generate_pix_code(pix_service, amount,
                               Take(event.title, 25), txid, <<>>),
              qr_code_base64 |-> Base64(generate_qr_code(pix_service, amount,
                                     Take(event.title, 25), txid, <<>>))]
        ELSE [event |-> event]

----------------------------------------------------------------------------
(* Bounds and inputs.                                                      *)

\* Amounts of -0.002 up to MaxThousandths / 1000 are tried one by one.
MaxThousandths == 6

\* _normalize_text is tried with every max_length up to MaxShortLength, besides
\* the two the code passes (25 and 15).
MaxShortLength == 6

\* Event.pix_key and GuardianProfile.pix_key: CharField(max_length=100)
MaxKeyLength == 100

\* local @ "example.com", n characters long
EmailOfLength(n) == Repeat(97, n - 12) \o S("@example.com")

\* "João's Café!!" and "São Paulo"
JoaosCafe == S("Jo") \o <<227>> \o S("o's Caf") \o <<233>> \o S("!!")
SaoPauloAccented == S("S") \o <<227>> \o S("o Paulo")

\* The profiles a PixService is constructed with: key, merchant name, city.
Profiles ==
    {<<S("test@example.com"), S("LOJA TESTE"), S("SAO PAULO")>>,
     <<S(""), S(""), S("")>>,
     <<S("123.456.789-09"), JoaosCafe, S("Belo Horizonte MG")>>,
     <<EmailOfLength(MaxKeyLength), S("ABCDEFGHIJKLMNOPQRSTUVWXYZ"), S("!!!")>>,
     <<S("11987654321"), S("!!!"), SaoPauloAccented>>}

Amounts ==
    {NoneAmount, Dec(-1000), Dec(10500), Dec(25000), Dec(999995)}
    \cup {Dec(n) : n \in (-2)..MaxThousandths}

Descriptions ==
    {S(""), S("Mensalidade"), S("!!!"), S("Festa de encerramento do ano")}

TransactionIds ==
    {S(""), S("ABC123"), S("tx 01-b"), S("***"), S("!!!"),
     S("0123456789abcdef0123456789abcdef")}

OverrideKeys ==
    {S(""), S("   "), S("129.456.789-09"), S("+55 (11) 98765-4321"),
     EmailOfLength(78)}

\* The argument lists generate_pix_code is called with: every amount, every
\* description with every override key, and every transaction id, the other
\* arguments held to one or two values.
CallArgs ==
    (Amounts \X {S("Mensalidade")} \X {S("ABC123")} \X {S("")})
    \cup ({NoneAmount, Dec(25000)} \X Descriptions \X {S("ABC123")}
          \X OverrideKeys)
    \cup ({Dec(25000)} \X {S("Mensalidade")} \X TransactionIds \X {S("")})

\* 11-digit keys: two DDD digits and the digit after them, then 87654321, bare
\* and in four written forms.
DddDigits == {S("0"), S("1"), S("5"), S("9")}
ThirdDigits == {S("8"), S("9")}

ElevenDigitKeys ==
    UNION {{a \o b \o c \o S("87654321"),
            a \o b \o c \o S(".876.543-21"),
            a \o b \o S(" ") \o c \o S("8765-4321"),
            S("+") \o a \o b \o c \o S("87654321"),
            S("(") \o a \o b \o S(") ") \o c \o S("8765-4321")} :
           <<a, b, c>> \in DddDigits \X DddDigits \X ThirdDigits}

TenDigitKeys ==
    {a \o b \o S("87654321") : <<a, b>> \in DddDigits \X DddDigits}

\* Eleven Arabic-Indic digits: U+0661 U+0661 U+0669 ...
ArabicIndicKey == [i \in 1..11 |-> IF i = 3 THEN 1641 ELSE 1633]

OtherKeys ==
    {S(""), S("   "), S("+"), S("()"), S("(abc)"), S("chave-aleatoria"),
     S("test@example.com"), S("Test@Example.COM"), S(" a@b.co "),
     S("11987654321@X.Y"), <<201>> \o S("@x.com"),
     S("A1B2C3D4-E5F6-A1B2-C3D4-E5F6A1B2C3D4"),
     S("a1b2c3d4e5f6a1b2c3d4e5f6a1b2c3d4"),
     S("A1B2C3D4E5F6A1B2C3D4E5F6A1B2C3D4"),
     S("12345678901234567890123456789012"),
     S("a1b2c3d4e5f6-a1b2c3d4e5f6a1b2c3d4"),
     S("123.456.789-09"), S("12345678909"), S(" 123.456.789-09 "),
     S("12.345.678/0001-95"), S("12345678000195"), S("55345678000195"),
     S("55 345678000195"), S("+12345678000195"), S("12 345 678 0001 95"),
     S("5511987654321"), S("551187654321"), S("+5511987654321"),
     S(" 11987654321"), S(" +11987654321"), S("1198765432"),
     S("(11) 3333"), S("+1 202 555"), S("(11) 98765-4321"),
     S("12345678-9012-34ab-cdef-abcdefabcdef"),
     S("12345678901234abcdefabcdefabcdef"),
     S("(12)345678000195"), S("55.345.678/0001-95"), S("12.345678/000195"),
     S("12-345-678-0001-95"),
     S("55345678-901234567890123456789012"),
     S("a+b(1)@X.y"), S("+5511987654321@x.y"), S("12345678000195@X"),
     S("A1B2C3D4E5F6A1B2C3D4E5F6A1B2C3D4@"), S("@"),
     ArabicIndicKey, EmailOfLength(77), EmailOfLength(78),
     EmailOfLength(MaxKeyLength)}

RawKeys == ElevenDigitKeys \cup TenDigitKeys \cup OtherKeys

Texts ==
    {S(""), S("LOJA TESTE"), JoaosCafe, SaoPauloAccented, S("!!!"),
     S("AB CD"), S("  a   b  "), S("A B C D"), S("ABCDE FG"),
     S("e") \o <<769>> \o S("cole"), S("a") \o <<9>> \o S("b"),
     S("Belo Horizonte MG"), S("ABCDEFGHIJKLMNOPQRSTUVWXY"),
     S("ABCDEFGHIJKLMNOPQRSTUVWXYZ"), S("Festa de encerramento do ano")}

MaxLengths == {15, 25} \cup 0..MaxShortLength

TxidTexts ==
    {S(""), S("ABC123"), S("abc 123"), S("***"), S("!!!"), S("tx 01-b"),
     S("a") \o <<231, 227>> \o S("o"),
     S("0123456789abcdef0123456789abcdef")}

\* The threads that call the one PixService the container provides.
Threads == {"request1", "request2"}

\* A thread that is running no call.
NoCall == [pc |-> "idle"]

\* The calls the threads make: method and arguments.
SharedCalls ==
    {<<"generate_pix_code",
       <<Dec(25000), S("Mensalidade"), S("ABC123"), S("")>>>>,
     <<"generate_pix_code",
       <<NoneAmount, S(""), S(""), S("+55 (11) 98765-4321")>>>>,
     <<"generate_qr_code",
       <<Dec(10500), S("Mensalidade"), S("ABC123"), S("")>>>>}

\* The profiles of the shared instance.
SharedProfiles ==
    {<<S("test@example.com"), S("LOJA TESTE"), S("SAO PAULO")>>,
     <<S("123.456.789-09"), S("!!!"), S("")>>}

\* The argument lists generate_qr_code is called with.
QrCallArgs ==
    {NoneAmount, Dec(25000)} \X {S("Mensalidade")} \X {S("ABC123")}
        \X {S(""), S("129.456.789-09"), S("+55 (11) 98765-4321")}

\* The events whose PIX page is shown: with a key, a holder and an amount;
\* with a key alone; without a key.
PixEvents ==
    {[id_hex |-> S("0123456789abcdef0123456789abcdef"),
      title |-> S("Festa de encerramento do ano"),
      pix_key |-> S("+55 (11) 98765-4321"),
      pix_holder_name |-> JoaosCafe,
      individual_amount |-> Dec(25000)],
     [id_hex |-> S("a1b2c3d4e5f6a1b2c3d4e5f6a1b2c3d4"),
      title |-> S("Mensalidade"),
      pix_key |-> S("test@example.com"),
      pix_holder_name |-> S(""),
      individual_amount |-> NoneAmount],
     [id_hex |-> S("a1b2c3d4e5f6a1b2c3d4e5f6a1b2c3d4"),
      title |-> S("Mensalidade"),
      pix_key |-> S(""),
      pix_holder_name |-> S(""),
      individual_amount |-> Dec(25000)]}

\* None, for a nullable foreign key or date, and for a user without guardian
None == "None"

\* The database before the site has any row.
NoRows ==
    [guardians |-> {}, event |-> [responsible |-> None, created_by |-> None],
     members |-> {}, payments |-> <<>>,
     invitation |-> [status |-> "pending", accepted_by |-> None,
                     accepted_at |-> None]]

\* The requests the site serves at the same time, and one that is not there.
Requests == {"first", "second"}
NoRequest == [pc |-> "idle"]

\* The users: ana, bia and caio have a guardian profile, dan has none. bia has
\* a student in the event's class and pays; ana and dan ask to confirm and to
\* reject payments; caio and dan open the invitation link.
Payers == {"bia"}
Moderators == {"ana", "dan"}
Invitees == {"caio", "dan"}

\* The event and the members of its class: ana responsible and creator; both
\* cleared to null, ana an admin member; both cleared to null, no admin.
SiteEvents ==
    {[event |-> [responsible |-> "ana", created_by |-> "ana"],
      members |-> {[guardian |-> "bia", role |-> "member"]}],
     [event |-> [responsible |-> None, created_by |-> None],
      members |-> {[guardian |-> "ana", role |-> "admin"],
                   [guardian |-> "bia", role |-> "member"]}],
     [event |-> [responsible |-> None, created_by |-> None],
      members |-> {[guardian |-> "bia", role |-> "member"]}]}

\* The fields _format_emv_field is called with by itself.
FieldTags == {S("00"), S("26"), S("54")}
FieldValues == {Repeat(65, n) : n \in {0, 1, 9, 10, 99, 100, 101}}

----------------------------------------------------------------------------
(* The state machine: a PixService is constructed, then its methods are    *)
(* called one at a time; each call runs to its end and its result is       *)
(* consumed (Return) before the next independent call.                     *)

Init ==
    /\ svc \in {PixService(p[1], p[2], p[3]) : p \in Profiles}
    /\ op = ""
    /\ args = <<>>
    /\ ret = <<>>
    /\ raised = ""
    /\ fields = <<>>
    /\ chained = FALSE
    /\ calls = [t \in Threads |-> NoCall]
    /\ db = NoRows
    /\ now = "before_expiry"
    /\ requests = [r \in Requests |-> NoRequest]

GeneratePixCode(amount, description, transaction_id, pix_key) ==
    /\ op = ""
    /\ LET run == GenerateRun(svc, amount, description, transaction_id, pix_key)
       IN  /\ ret' = run.result
           /\ fields' = run.fields
    /\ op' = "generate_pix_code"
    /\ args' = [amount |-> amount, description |-> description,
                transaction_id |-> transaction_id, pix_key |-> pix_key]
    /\ raised' = ""
    /\ chained' = FALSE
    /\ UNCHANGED <<siteVars, svc, calls>>

NormalizePixKey(key) ==
    /\ op = ""
    /\ op' = "_normalize_pix_key"
    /\ args' = [key |-> key]
    /\ ret' = normalize_pix_key(key)
    /\ raised' = ""
    /\ chained' = FALSE
    /\ UNCHANGED <<siteVars, svc, calls, fields>>

\* _normalize_pix_key called on the key it has just returned
RenormalizePixKey ==
    /\ op = "_normalize_pix_key"
    /\ ~chained
    /\ args' = [key |-> ret]
    /\ ret' = normalize_pix_key(ret)
    /\ chained' = TRUE
    /\ UNCHANGED <<siteVars, svc, calls, op, raised, fields>>

NormalizeText(value, max_length) ==
    /\ op = ""
    /\ op' = "_normalize_text"
    /\ args' = [value |-> value, max_length |-> max_length]
    /\ ret' = normalize_text(value, max_length)
    /\ raised' = ""
    /\ chained' = FALSE
    /\ UNCHANGED <<siteVars, svc, calls, fields>>

\* _normalize_text called on the text it has just returned, same max_length
RenormalizeText ==
    /\ op = "_normalize_text"
    /\ ~chained
    /\ args' = [value |-> ret, max_length |-> args.max_length]
    /\ ret' = normalize_text(ret, args.max_length)
    /\ chained' = TRUE
    /\ UNCHANGED <<siteVars, svc, calls, op, raised, fields>>

NormalizeTxid(value) ==
    /\ op = ""
    /\ op' = "_normalize_txid"
    /\ args' = [value |-> value]
    /\ ret' = normalize_txid(value, 25)
    /\ raised' = ""
    /\ chained' = FALSE
    /\ UNCHANGED <<siteVars, svc, calls, fields>>

\* _normalize_txid called on the id it has just returned
RenormalizeTxid ==
    /\ op = "_normalize_txid"
    /\ ~chained
    /\ args' = [value |-> ret]
    /\ ret' = normalize_txid(ret, 25)
    /\ chained' = TRUE
    /\ UNCHANGED <<siteVars, svc, calls, op, raised, fields>>

FormatEmvField(tag, value) ==
    /\ op = ""
    /\ op' = "_format_emv_field"
    /\ args' = [tag |-> tag, value |-> value]
    /\ ret' = format_emv_field(tag, value)
    /\ raised' = ""
    /\ chained' = FALSE
    /\ UNCHANGED <<siteVars, svc, calls, fields>>

GenerateQrCode(amount, description, transaction_id, pix_key) ==
    /\ op = ""
    /\ op' = "generate_qr_code"
    /\ args' = [amount |-> amount, description |-> description,
                transaction_id |-> transaction_id, pix_key |-> pix_key]
    /\ ret' = generate_qr_code(svc, amount, description, transaction_id, pix_key)
    /\ raised' = ""
    /\ chained' = FALSE
    /\ UNCHANGED <<siteVars, svc, calls, fields>>

\* EventPixView.get_context_data, on a PixService of its own
EventPixView(event) ==
    /\ op = ""
    /\ op' = "EventPixView.get_context_data"
    /\ args' = [event |-> event]
    /\ ret' = get_context_data(event)
    /\ raised' = ""
    /\ chained' = FALSE
    /\ UNCHANGED <<siteVars, svc, calls, fields>>

\* The caller takes the result; the instance is as it was.
Return ==
    /\ op # ""
    /\ op' = ""
    /\ args' = <<>>
    /\ ret' = <<>>
    /\ raised' = ""
    /\ fields' = <<>>
    /\ chained' = FALSE
    /\ UNCHANGED <<siteVars, svc, calls>>

Next ==
    \/ \E c \in CallArgs : GeneratePixCode(c[1], c[2], c[3], c[4])
    \/ \E key \in RawKeys : NormalizePixKey(key)
    \/ RenormalizePixKey
    \/ \E value \in Texts, max_length \in MaxLengths :
          NormalizeText(value, max_length)
    \/ RenormalizeText
    \/ \E value \in TxidTexts : NormalizeTxid(value)
    \/ RenormalizeTxid
    \/ \E tag \in FieldTags, value \in FieldValues : FormatEmvField(tag, value)
    \/ \E c \in QrCallArgs : GenerateQrCode(c[1], c[2], c[3], c[4])
    \/ \E event \in PixEvents : EventPixView(event)
    \/ Return

Spec == Init /\ [][Next]_vars

----------------------------------------------------------------------------
(* Concurrent calls: the container provides one PixService to every        *)
(* thread. A call is a sequence of steps, one per statement group of       *)
(* generate_pix_code that reads the instance, and the steps of different   *)
(* threads interleave in any order.                                        *)

SharedInit ==
    /\ svc \in {PixService(p[1], p[2], p[3]) : p \in SharedProfiles}
    /\ op = ""
    /\ args = <<>>
    /\ ret = <<>>
    /\ raised = ""
    /\ fields = <<>>
    /\ chained = FALSE
    /\ calls = [t \in Threads |-> NoCall]
    /\ db = NoRows
    /\ now = "before_expiry"
    /\ requests = [r \in Requests |-> NoRequest]

\* payload = PixPayload(...); result = ""
BuildPayload(t, method, a) ==
    /\ calls[t].pc = "idle"
    /\ LET payload == PixPayload(svc, a[1], a[2], a[3], a[4])
       IN  /\ calls' = [calls EXCEPT ![t] =
                           [pc |-> "leading", method |-> method, args |-> a,
                            payload |-> payload, result |-> <<>>]]
           /\ svc' = SelfAfterPayload(svc, payload)
    /\ UNCHANGED <<siteVars, op, args, ret, raised, fields, chained>>

\* fields 00, 26, 52, 53 and 54; _build_merchant_account_info reads
\* self.pix_key when the payload has no key
AppendLeading(t) ==
    /\ calls[t].pc = "leading"
    /\ calls' = [calls EXCEPT
          ![t].result = @ \o Serialize(LeadingFields(svc, calls[t].payload)
                                       \o AmountFields(calls[t].payload.amount)),
          ![t].pc = "name"]
    /\ UNCHANGED <<siteVars, svc, op, args, ret, raised, fields, chained>>

\* fields 58 and 59; the name falls back on self.merchant_name
AppendMerchantName(t) ==
    /\ calls[t].pc = "name"
    /\ calls' = [calls EXCEPT
          ![t].result =
              @ \o Serialize(SubSeq(TrailingFields(svc, calls[t].payload), 1, 2)),
          ![t].pc = "city"]
    /\ UNCHANGED <<siteVars, svc, op, args, ret, raised, fields, chained>>

\* field 60; the city falls back on self.merchant_city
AppendMerchantCity(t) ==
    /\ calls[t].pc = "city"
    /\ calls' = [calls EXCEPT
          ![t].result =
              @ \o Serialize(SubSeq(TrailingFields(svc, calls[t].payload), 3, 3)),
          ![t].pc = "crc"]
    /\ UNCHANGED <<siteVars, svc, op, args, ret, raised, fields, chained>>

\* field 62 and the checksum; generate_pix_code returns
AppendChecksum(t) ==
    /\ calls[t].pc = "crc"
    /\ LET result == calls[t].result
                     \o Serialize(SubSeq(TrailingFields(svc, calls[t].payload),
                                         4, 4))
           pix_code == result \o CRC16 \o S("04") \o calculate_crc16(result)
       IN  calls' = [calls EXCEPT
               ![t].result = pix_code,
               ![t].pc = IF calls[t].method = "generate_qr_code"
                         THEN "qr" ELSE "returned"]
    /\ UNCHANGED <<siteVars, svc, op, args, ret, raised, fields, chained>>

\* generate_qr_code draws the code it was returned and returns the PNG bytes
RenderQrCode(t) ==
    /\ calls[t].pc = "qr"
    /\ calls' = [calls EXCEPT ![t].result = QrPng(@), ![t].pc = "returned"]
    /\ UNCHANGED <<siteVars, svc, op, args, ret, raised, fields, chained>>

\* The thread's caller takes the result.
TakeResult(t) ==
    /\ calls[t].pc = "returned"
    /\ calls' = [calls EXCEPT ![t] = NoCall]
    /\ UNCHANGED <<siteVars, svc, op, args, ret, raised, fields, chained>>

SharedNext ==
    \E t \in Threads :
        \/ \E c \in SharedCalls : BuildPayload(t, c[1], c[2])
        \/ AppendLeading(t)
        \/ AppendMerchantName(t)
        \/ AppendMerchantCity(t)
        \/ AppendChecksum(t)
        \/ RenderQrCode(t)
        \/ TakeResult(t)

SharedSpec == SharedInit /\ [][SharedNext]_vars

----------------------------------------------------------------------------
(* The site: the views that create, confirm and reject payments and that   *)
(* accept a class invitation, each request a sequence of database reads    *)
(* and writes; the steps of the requests being served interleave.          *)

\* getattr(request.user, "guardian", None)
GuardianOf(user) == IF user \in db.guardians THEN user ELSE None

\* Payment.objects.filter(event=self.event, guardian=guardian).first()
ExistingPayment(guardian) ==
    \E i \in DOMAIN db.payments : db.payments[i].guardian = guardian

\* is_responsible or is_admin, as PaymentConfirmView.post and
\* PaymentRejectView.post compute it
CanModerate(guardian) ==
    \/ db.event.responsible = guardian
    \/ db.event.created_by = guardian
    \/ \E m \in db.members : m.guardian = guardian /\ m.role = "admin"

\* ClassInvitation.is_valid, on an instance loaded as invitation
is_valid(invitation) ==
    invitation.status = "pending" /\ now # "after_expiry"

SiteInit ==
    /\ svc \in {PixService(p[1], p[2], p[3]) : p \in SharedProfiles}
    /\ op = ""
    /\ args = <<>>
    /\ ret = <<>>
    /\ raised = ""
    /\ fields = <<>>
    /\ chained = FALSE
    /\ calls = [t \in Threads |-> NoCall]
    /\ \E e \in SiteEvents :
          db = [NoRows EXCEPT !.guardians = {"ana", "bia", "caio"},
                              !.event = e.event, !.members = e.members]
    /\ now = "before_expiry"
    /\ requests = [r \in Requests |-> NoRequest]

\* PaymentCreateView.form_valid up to "if existing": a payment found ends the
\* request with a warning and a redirect
FormValidCheck(r, user) ==
    /\ requests[r].pc = "idle"
    /\ requests' = IF ExistingPayment(GuardianOf(user)) THEN requests
                   ELSE [requests EXCEPT ![r] =
                            [pc |-> "save_payment", user |-> user,
                             guardian |-> GuardianOf(user)]]
    /\ UNCHANGED <<pixVars, db, now>>

\* PaymentCreateView.form_valid from form.save(commit=False) on
FormValidSave(r) ==
    /\ requests[r].pc = "save_payment"
    /\ db' = [db EXCEPT !.payments =
                 Append(@, [guardian |-> requests[r].guardian,
                            status |-> "pending", confirmed_by |-> None,
                            confirmed_at |-> None])]
    /\ requests' = [requests EXCEPT ![r] = NoRequest]
    /\ UNCHANGED <<pixVars, now>>

\* PaymentConfirmView.post up to the permission test: a user without
\* permission gets an error and a redirect
ConfirmCheck(r, user, pk) ==
    /\ requests[r].pc = "idle"
    /\ pk \in DOMAIN db.payments
    /\ requests' = IF CanModerate(GuardianOf(user))
                   THEN [requests EXCEPT ![r] =
                            [pc |-> "confirm", user |-> user, pk |-> pk,
                             guardian |-> GuardianOf(user)]]
                   ELSE requests
    /\ UNCHANGED <<pixVars, db, now>>

\* payment.confirm(guardian)
ConfirmSave(r) ==
    /\ requests[r].pc = "confirm"
    /\ db' = [db EXCEPT !.payments[requests[r].pk] =
                 [@ EXCEPT !.status = "confirmed",
                           !.confirmed_by = requests[r].guardian,
                           !.confirmed_at = now]]
    /\ requests' = [requests EXCEPT ![r] = NoRequest]
    /\ UNCHANGED <<pixVars, now>>

\* PaymentRejectView.post up to the permission test
RejectCheck(r, user, pk) ==
    /\ requests[r].pc = "idle"
    /\ pk \in DOMAIN db.payments
    /\ requests' = IF CanModerate(GuardianOf(user))
                   THEN [requests EXCEPT ![r] =
                            [pc |-> "reject", user |-> user, pk |-> pk,
                             guardian |-> GuardianOf(user)]]
                   ELSE requests
    /\ UNCHANGED <<pixVars, db, now>>

\* payment.reject(): status alone is assigned and saved
RejectSave(r) ==
    /\ requests[r].pc = "reject"
    /\ db' = [db EXCEPT !.payments[requests[r].pk].status = "rejected"]
    /\ requests' = [requests EXCEPT ![r] = NoRequest]
    /\ UNCHANGED <<pixVars, now>>

\* AcceptInvitationView.get up to "if not invitation.is_valid": the
\* invitation is loaded; one that is not valid ends the request
AcceptLoad(r, user) ==
    /\ requests[r].pc = "idle"
    /\ requests' = IF is_valid(db.invitation)
                   THEN [requests EXCEPT ![r] =
                            [pc |-> "guardian", user |-> user,
                             invitation |-> db.invitation]]
                   ELSE requests
    /\ UNCHANGED <<pixVars, db, now>>

\* guardian = getattr(...); if not guardian: Guardian.objects.create(...)
AcceptEnsureGuardian(r) ==
    /\ requests[r].pc = "guardian"
    /\ db' = [db EXCEPT !.guardians = @ \cup {requests[r].user}]
    /\ requests' = [requests EXCEPT ![r].pc = "accept"]
    /\ UNCHANGED <<pixVars, now>>

\* ClassInvitation.accept up to get_or_create: an instance that is not valid
\* raises ValueError, which the view reports before it redirects
AcceptMember(r) ==
    /\ requests[r].pc = "accept"
    /\ IF is_valid(requests[r].invitation)
       THEN /\ db' = [db EXCEPT !.members =
                         IF \E m \in @ : m.guardian = requests[r].user THEN @
                         ELSE @ \cup {[guardian |-> requests[r].user,
                                       role |-> "member"]}]
            /\ requests' = [requests EXCEPT ![r].pc = "save_invitation"]
       ELSE /\ db' = db
            /\ requests' = [requests EXCEPT ![r] = NoRequest]
    /\ UNCHANGED <<pixVars, now>>

\* ClassInvitation.accept from "self.status = ACCEPTED" on
AcceptSave(r) ==
    /\ requests[r].pc = "save_invitation"
    /\ db' = [db EXCEPT !.invitation =
                 [status |-> "accepted", accepted_by |-> requests[r].user,
                  accepted_at |-> now]]
    /\ requests' = [requests EXCEPT ![r] = NoRequest]
    /\ UNCHANGED <<pixVars, now>>

\* The invitation's expires_at passes.
TimePasses ==
    /\ now = "before_expiry"
    /\ now' = "after_expiry"
    /\ UNCHANGED <<pixVars, db, requests>>

SiteNext ==
    \/ \E r \in Requests :
          \/ \E user \in Payers : FormValidCheck(r, user)
          \/ FormValidSave(r)
          \/ \E user \in Moderators, pk \in DOMAIN db.payments :
                ConfirmCheck(r, user, pk)
          \/ ConfirmSave(r)
          \/ \E user \in Moderators, pk \in DOMAIN db.payments :
                RejectCheck(r, user, pk)
          \/ RejectSave(r)
          \/ \E user \in Invitees : AcceptLoad(r, user)
          \/ AcceptEnsureGuardian(r)
          \/ AcceptMember(r)
          \/ AcceptSave(r)
    \/ TimePasses

SiteSpec == SiteInit /\ [][SiteNext]_vars

----------------------------------------------------------------------------
(* Properties.                                                             *)

IsGenerate == op = "generate_pix_code"

\* The tags of the top-level fields appended, in order.
Tags == [i \in 1..Len(fields) |-> fields[i].tag]

\* The values of the top-level fields that carry tag.
ValuesOf(tag) == {fields[i].value : i \in {j \in 1..Len(fields) : fields[j].tag = tag}}

\* The register after one more message byte, by the table-driven form of
\* CRC-16/CCITT-FALSE: width 16, polynomial 0x1021, no reflection.
RECURSIVE RefShift(_, _)
RefShift(r, n) ==
    IF n = 0 THEN r
    ELSE IF r >= 32768 THEN RefShift(Xor((r - 32768) * 2, 4129), n - 1)
    ELSE RefShift(r * 2, n - 1)

RefTable == [b \in 0..255 |-> RefShift(b * 256, 8)]

RefByte(r, byte) == Xor(RefTable[Xor(r \div 256, byte)], (r % 256) * 256)

RECURSIVE RefCrc(_, _, _, _)
RefCrc(r, data, lo, hi) ==
    IF lo > hi THEN r
    ELSE IF lo = hi THEN RefByte(r, data[lo])
    ELSE LET left == RefCrc(r, data, lo, (lo + hi) \div 2)
         IN  IF left >= 0 THEN RefCrc(left, data, ((lo + hi) \div 2) + 1, hi)
             ELSE left

\* CRC-16/CCITT-FALSE of a byte string: initial register 0xFFFF, no final XOR.
CrcCcittFalse(data) == RefCrc(65535, data, 1, Len(data))

\* The four uppercase hex digits of a 16-bit value.
FourHex(n) ==
    <<HexDigits[(n \div 4096) + 1], HexDigits[((n \div 256) % 16) + 1],
      HexDigits[((n \div 16) % 16) + 1], HexDigits[(n % 16) + 1]>>

\* C1: the last 4 characters of every string generate_pix_code returns are the
\* CRC16-CCITT-FALSE value, as 4 uppercase hex digits, of the UTF-8 bytes of
\* the string without them, which ends with the literal "6304".
C1_CrcRoundTrip ==
    IsGenerate =>
        /\ Len(ret) >= 8
        /\ EndsWith(Take(ret, Len(ret) - 4), S("6304"))
        /\ From(ret, Len(ret) - 4)
           = FourHex(CrcCcittFalse(Utf8(Take(ret, Len(ret) - 4))))

\* C1 witness: the call of scenario 5 has returned, its checksum 023F.
C1_Witness ==
    /\ IsGenerate
    /\ svc.pix_key = S("test@example.com")
    /\ args.amount = Dec(25000)
    /\ args.description = S("Mensalidade")
    /\ args.transaction_id = S("ABC123")
    /\ args.pix_key = S("")
    /\ EndsWith(ret, S("6009SAO PAULO62100506ABC1236304023F"))

\* C2: the top-level fields appended are, in order, 00, 26, 52, 53, [54], 58,
\* 59, 60, 62, 63, once each, only 54 optional and no point-of-initiation
\* field (tag 01); 00 = "01", 52 = "0000", 53 = "986", 58 = "BR"; the string
\* returned is these fields one after the other, so it begins "000201" and the
\* tag-26 field follows at once.
C2_FieldOrder ==
    IsGenerate =>
        /\ Tags \in {<<S("00"), S("26"), S("52"), S("53"), S("54"), S("58"),
                       S("59"), S("60"), S("62"), S("63")>>,
                     <<S("00"), S("26"), S("52"), S("53"), S("58"),
                       S("59"), S("60"), S("62"), S("63")>>}
        /\ ValuesOf(S("00")) = {S("01")}
        /\ ValuesOf(S("52")) = {S("0000")}
        /\ ValuesOf(S("53")) = {S("986")}
        /\ ValuesOf(S("58")) = {S("BR")}
        /\ ret = Serialize(fields)
        /\ StartsWith(ret, S("00020126"))
        /\ StartsWith(From(ret, 6), S("26"))

\* C2 witness: a call with an amount has returned all ten fields.
C2_Witness ==
    /\ IsGenerate
    /\ Len(fields) = 10
    /\ fields[5].tag = S("54")
    /\ StartsWith(ret, S("00020126530014br.gov.bcb.pix0116test@example.com"))

\* Every field of the call, the subfields of tags 26 and 62 after the
\* top-level ones.
AllFields ==
    fields \o Concat([i \in 1..Len(fields) |-> fields[i].sub])

\* Tag and value alone.
Plain(fs) == [i \in 1..Len(fs) |-> [tag |-> fs[i].tag, value |-> fs[i].value]]

\* The 2 decimal digits s[3..4] as a number, -1 when they are not there.
DeclaredLength(s) ==
    IF Len(s) >= 4 /\ IsAsciiDigit(s[3]) /\ IsAsciiDigit(s[4])
    THEN 10 * (s[3] - 48) + (s[4] - 48)
    ELSE -1

RECURSIVE ReadFields(_)
\* s read as consecutive tag(2) + length(2) + value fields; a field that
\* cannot be read ends the reading with the rest of s under the tag "?".
ReadFields(s) ==
    IF s = <<>> THEN <<>>
    ELSE IF DeclaredLength(s) < 0 \/ Len(s) < 4 + DeclaredLength(s)
         THEN <<[tag |-> S("?"), value |-> s]>>
         ELSE <<[tag |-> SubSeq(s, 1, 2),
                 value |-> SubSeq(s, 5, 4 + DeclaredLength(s))]>>
              \o ReadFields(From(s, 4 + DeclaredLength(s)))

RECURSIVE WireLength(_)
\* The sum of 4 + len(value) over fields.
WireLength(fs) ==
    IF fs = <<>> THEN 0 ELSE 4 + Len(Head(fs).value) + WireLength(Tail(fs))

\* C3: every field of an output, top-level and nested, has a value of at most
\* 99 characters; read as tag(2) + length(2) + value fields the output, and the
\* values of tags 26 and 62, give back exactly the fields appended, and the
\* output is as long as the sum of 4 + len(value) over the top-level fields.
C3_FieldLengths ==
    IsGenerate =>
        /\ \A i \in 1..Len(AllFields) : Len(AllFields[i].value) <= 99
        /\ ReadFields(ret) = Plain(fields)
        /\ \A i \in 1..Len(fields) :
              fields[i].sub # <<>> =>
                  ReadFields(fields[i].value) = Plain(fields[i].sub)
        /\ Len(ret) = WireLength(fields)

\* C4: _format_emv_field on a value longer than 99 characters raises
\* FieldTooLong, and a generate_pix_code call one of whose fields is longer
\* than 99 characters raises it and returns no string.
C4_FieldTooLong ==
    /\ (op = "_format_emv_field" /\ Len(args.value) > 99)
          => (raised = "FieldTooLong" /\ ret = <<>>)
    /\ (IsGenerate /\ \E i \in 1..Len(AllFields) : Len(AllFields[i].value) > 99)
          => (raised = "FieldTooLong" /\ ret = <<>>)

\* C5: _normalize_pix_key applied to a key it has returned returns that key.
C5_KeyIdempotent ==
    (op = "_normalize_pix_key" /\ chained) => ret = args.key

\* C6: _normalize_text applied, with the same max_length, to a text it has
\* returned returns that text, and _normalize_txid applied to an id it has
\* returned returns that id.
C6_TextIdempotent ==
    /\ (op = "_normalize_text" /\ chained) => ret = args.value
    /\ (op = "_normalize_txid" /\ chained) => ret = args.value

\* The number a string of decimal digits writes.
RECURSIVE DecValue(_)
DecValue(digits) ==
    IF digits = <<>> THEN 0
    ELSE 10 * DecValue(SubSeq(digits, 1, Len(digits) - 1))
         + (digits[Len(digits)] - 48)

\* text writes, with exactly two decimals, the hundredths nearest to
\* thousandths / 1000, a tie going to the even one.
IsTwoDecimalsOf(text, thousandths) ==
    LET whole == Take(text, Len(text) - 3)
        cents == 100 * DecValue(whole) + DecValue(From(text, Len(text) - 2))
    IN  /\ Len(text) >= 4
        /\ text[Len(text) - 2] = 46
        /\ \A i \in (1..Len(text)) \ {Len(text) - 2} : IsAsciiDigit(text[i])
        /\ (Len(whole) > 1 => whole[1] # 48)
        /\ 10 * cents - thousandths \in (-5)..5
        /\ (10 * cents - thousandths \in {-5, 5} => cents % 2 = 0)

\* The call's fields other than the amount and the checksum.
OtherFields ==
    SelectSeq(fields, LAMBDA f : f.tag \notin {S("54"), S("63")})

\* C7: tag 54 is among the fields of an output exactly when an amount was
\* given and is greater than 0, and then its value is the amount with two
\* decimals (10.5 gives "10.50", 25.00 gives "25.00"); for None, 0 and negative
\* amounts the call returns a string without tag 54 whose other fields are
\* those of the call without amount.
C7_AmountField ==
    IsGenerate =>
        /\ raised = ""
        /\ (S("54") \in {Tags[i] : i \in 1..Len(Tags)})
              <=> (args.amount # NoneAmount /\ args.amount[1] > 0)
        /\ \A v \in ValuesOf(S("54")) : IsTwoDecimalsOf(v, args.amount[1])
        /\ (args.amount = Dec(10500) => ValuesOf(S("54")) = {S("10.50")})
        /\ (args.amount = Dec(25000) => ValuesOf(S("54")) = {S("25.00")})
        /\ ((args.amount = NoneAmount \/ args.amount[1] <= 0) =>
               /\ ret # <<>>
               /\ ValuesOf(S("54")) = {}
               /\ OtherFields
                  = PayloadFields(svc, PixPayload(svc, NoneAmount,
                        args.description, args.transaction_id, args.pix_key)))

\* C7 witness: the amount 10.5 has been written "10.50".
C7_Witness ==
    /\ IsGenerate
    /\ args.amount = Dec(10500)
    /\ fields[5] = Field(S("54"), S("10.50"))
    /\ ret = S("00020126530014br.gov.bcb.pix0116test@example.com0211MENSALIDADE520400005303986540510.505802BR5910LOJA TESTE6009SAO PAULO62100506ABC1236304E1D9")

\* C8: no output carries a tag-54 field whose value is "0.00".
C8_NoZeroAmount ==
    IsGenerate => S("0.00") \notin ValuesOf(S("54"))

\* C9 as stated: a call with a negative amount raises InvalidAmount and
\* returns no string.
C9_NegativeRejected ==
    (IsGenerate /\ args.amount # NoneAmount /\ args.amount[1] < 0)
        => (raised = "InvalidAmount" /\ ret = <<>>)

\* C9 amended: a call with a negative amount raises nothing and returns the
\* string the same call returns without amount, which has no tag-54 field.
C9_NegativeOmitted ==
    (IsGenerate /\ args.amount # NoneAmount /\ args.amount[1] < 0) =>
        /\ raised = ""
        /\ ValuesOf(S("54")) = {}
        /\ Len(fields) = 9
        /\ ret = generate_pix_code(svc, NoneAmount, args.description,
                                   args.transaction_id, args.pix_key)

\* C9 witness: the call with amount -1 has returned the payload without amount.
C9_Witness ==
    /\ IsGenerate
    /\ args.amount = Dec(-1000)
    /\ ret = S("00020126530014br.gov.bcb.pix0116test@example.com0211MENSALIDADE5204000053039865802BR5910LOJA TESTE6009SAO PAULO62100506ABC1236304DC55")

\* The key as _normalize_pix_key reads it, and its digits.
StrippedKey == Strip(args.key)
KeyDigits == SelectSeq(StrippedKey, IsDigit)

\* The key matches none of rules 1-6, has no leading "+" and no parentheses,
\* and has exactly 11 digits.
IsPlainElevenDigitKey ==
    /\ args.key # <<>>
    /\ ~Contains(StrippedKey, 64)
    /\ ~FullMatch(StrippedKey, uuid_pattern)
    /\ ~(Len(StrippedKey) = 32 /\ \A i \in 1..32 : IsHex(StrippedKey[i]))
    /\ ~FullMatch(StrippedKey, cpf_formatted_pattern)
    /\ ~FullMatch(StrippedKey, cnpj_pattern)
    /\ (StrippedKey = <<>> \/ StrippedKey[1] # 43)
    /\ \A i \in 1..Len(StrippedKey) : StrippedKey[i] \notin {40, 41}
    /\ Len(KeyDigits) = 11

\* The third digit is "9" and the first two write a number in 11..99.
HasMobileShape ==
    /\ KeyDigits[3] = 57
    /\ 10 * DigitVal(KeyDigits[1]) + DigitVal(KeyDigits[2]) \in 11..99

\* C10: a key that matches none of rules 1-6, has no leading "+", no
\* parentheses and exactly 11 digits normalizes to "+55" and the digits when
\* the third digit is "9" and the first two are in 11..99, and to the bare
\* digits otherwise.
C10_ElevenDigits ==
    (op = "_normalize_pix_key" /\ IsPlainElevenDigitKey) =>
        ret = IF HasMobileShape THEN S("+55") \o KeyDigits ELSE KeyDigits

\* C10 witness: "11987654321" has given "+5511987654321".
C10_Witness ==
    /\ op = "_normalize_pix_key"
    /\ ~chained
    /\ args.key = S("11987654321")
    /\ IsPlainElevenDigitKey
    /\ ret = S("+5511987654321")

\* The trimmed key has the shape DDD.DDD.DDD-DD, D a decimal digit.
HasCpfShape ==
    /\ Len(StrippedKey) = 14
    /\ StrippedKey[4] = 46 /\ StrippedKey[8] = 46 /\ StrippedKey[12] = 45
    /\ \A i \in (1..14) \ {4, 8, 12} : IsAsciiDigit(StrippedKey[i])

\* C11: a key of the shape DDD.DDD.DDD-DD normalizes to its 11 digits alone,
\* with no "+" or "+55" before them, also when the digits have the mobile
\* shape (first two digits in 11..99, third digit "9").
C11_FormattedCpf ==
    (op = "_normalize_pix_key" /\ HasCpfShape) =>
        /\ ret = SubSeq(StrippedKey, 1, 3) \o SubSeq(StrippedKey, 5, 7)
                 \o SubSeq(StrippedKey, 9, 11) \o SubSeq(StrippedKey, 13, 14)
        /\ Len(ret) = 11
        /\ \A i \in 1..Len(ret) : IsAsciiDigit(ret[i])

\* C11 witness: "119.876.543-21", whose digits have the mobile shape, has
\* given "11987654321".
C11_Witness ==
    /\ op = "_normalize_pix_key"
    /\ args.key = S("119.876.543-21")
    /\ HasCpfShape
    /\ HasMobileShape
    /\ ret = S("11987654321")

\* The trimmed key has no "@", only hex digits and hyphens, exactly 32 hex
\* digits, and is not laid out 8-4-4-4-12.
IsLooseHexKey ==
    /\ ~Contains(StrippedKey, 64)
    /\ \A i \in 1..Len(StrippedKey) :
          IsHex(StrippedKey[i]) \/ StrippedKey[i] = 45
    /\ Len(SelectSeq(StrippedKey, IsHex)) = 32
    /\ ~FullMatch(StrippedKey, uuid_pattern)

\* C12: a key without "@" made only of hex digits and hyphens, with exactly 32
\* hex digits and not in the 8-4-4-4-12 layout, normalizes to the 32 hex
\* digits in lower case with hyphens after positions 8, 12, 16 and 20, whether
\* it has no hyphen or misplaced ones.
C12_HexKey ==
    (op = "_normalize_pix_key" /\ IsLooseHexKey) =>
        ret = Lower(Hyphenate(SelectSeq(StrippedKey, IsHex)))

\* The key matches none of rules 1-6 (rule 4 as the specification words it).
MatchesNoRuleBeforePhone ==
    /\ args.key # <<>>
    /\ ~Contains(StrippedKey, 64)
    /\ ~FullMatch(StrippedKey, uuid_pattern)
    /\ ~IsLooseHexKey
    /\ ~(FullMatch(StrippedKey, cpf_formatted_pattern) /\ Len(KeyDigits) = 11)
    /\ ~(FullMatch(StrippedKey, cnpj_pattern) /\ Len(KeyDigits) = 14)

\* The digits start with 55 and number at least 12.
HasLeading55 ==
    Len(KeyDigits) >= 12 /\ KeyDigits[1] = 53 /\ KeyDigits[2] = 53

\* The key is classified as a phone by one of the five signals of rule 7.
IsClassifiedPhone ==
    \/ (StrippedKey # <<>> /\ StrippedKey[1] = 43)
    \/ \E i \in 1..Len(StrippedKey) : StrippedKey[i] \in {40, 41}
    \/ HasLeading55
    \/ (Len(KeyDigits) = 11 /\ HasMobileShape)
    \/ (Len(KeyDigits) = 10
        /\ 10 * DigitVal(KeyDigits[1]) + DigitVal(KeyDigits[2]) \in 11..99)

\* C13: a key that matches none of rules 1-6 and is classified as a phone
\* normalizes to "+" and its digits when it starts with "+" or its digits
\* start with 55 and number at least 12, and to "+55" and its digits
\* otherwise, whatever the digit count, none included.
C13_PhoneForm ==
    (op = "_normalize_pix_key" /\ MatchesNoRuleBeforePhone /\ IsClassifiedPhone)
        => ret = IF (StrippedKey # <<>> /\ StrippedKey[1] = 43) \/ HasLeading55
                 THEN <<43>> \o KeyDigits
                 ELSE S("+55") \o KeyDigits

\* C14: a non-empty key that contains "@" normalizes to the trimmed key with
\* every upper-case letter replaced by its lower-case one and nothing else
\* changed, whatever else the key contains; the empty key normalizes to "".
C14_Email ==
    op = "_normalize_pix_key" =>
        /\ (args.key # <<>> /\ Contains(args.key, 64)) =>
              /\ Len(ret) = Len(StrippedKey)
              /\ \A i \in 1..Len(ret) :
                    ret[i] = IF StrippedKey[i] \in 65..90
                             THEN StrippedKey[i] + 32
                             ELSE LowerChar(StrippedKey[i])
              /\ (ret = <<>> \/ (~IsSpace(ret[1]) /\ ~IsSpace(ret[Len(ret)])))
        /\ (args.key = <<>> => ret = <<>>)

\* C14 witness: the key "11987654321@X.Y", eleven digits of the mobile shape
\* before the "@", has given its lower case.
C14_Witness ==
    /\ op = "_normalize_pix_key"
    /\ args.key = S("11987654321@X.Y")
    /\ Len(KeyDigits) = 11
    /\ HasMobileShape
    /\ ret = S("11987654321@x.y")

RECURSIVE CollapseSpaces(_)
\* s with every run of spaces replaced by one space
CollapseSpaces(s) ==
    IF Len(s) <= 1 THEN s
    ELSE IF s[1] = 32 /\ s[2] = 32 THEN CollapseSpaces(Tail(s))
    ELSE <<s[1]>> \o CollapseSpaces(Tail(s))

\* s without the spaces before its first and after its last other character
TrimSpaces(s) ==
    LET kept == {i \in 1..Len(s) : s[i] # 32}
        first == CHOOSE i \in kept : \A j \in kept : i <= j
        last == CHOOSE i \in kept : \A j \in kept : j <= i
    IN  IF kept = {} THEN <<>> ELSE SubSeq(s, first, last)

\* value with diacritics stripped, then every character other than ASCII
\* letters, digits and space deleted
CleanedText(value) ==
    SelectSeq(remove_accents(value),
              LAMBDA c : c = 32 \/ c \in 48..57 \/ c \in 65..90 \/ c \in 97..122)

\* s with a..z replaced by A..Z
UpperAscii(s) ==
    [i \in 1..Len(s) |-> IF s[i] \in 97..122 THEN s[i] - 32 ELSE s[i]]

\* The result has at most max_length characters, all in [A-Z0-9 ], and no two
\* consecutive spaces; the alphabet is kept whole at 25 and cut at 26.
TextIsWellFormed ==
    /\ Len(ret) <= args.max_length
    /\ \A i \in 1..Len(ret) :
          ret[i] = 32 \/ ret[i] \in 48..57 \/ ret[i] \in 65..90
    /\ \A i \in 1..(Len(ret) - 1) : ~(ret[i] = 32 /\ ret[i + 1] = 32)
    /\ (args.max_length = 25 /\ args.value = S("ABCDEFGHIJKLMNOPQRSTUVWXY"))
          => ret = args.value
    /\ (args.max_length = 25 /\ args.value = S("ABCDEFGHIJKLMNOPQRSTUVWXYZ"))
          => ret = S("ABCDEFGHIJKLMNOPQRSTUVWXY")
    /\ (args.max_length = 25 /\ args.value = JoaosCafe)
          => ret = S("JOAOS CAFE")

\* The first max_length characters of value with diacritics stripped, other
\* characters than ASCII letters, digits and space deleted, spaces trimmed
\* and collapsed, and letters uppercased.
NormalText(value, max_length) ==
    Take(UpperAscii(TrimSpaces(CollapseSpaces(CleanedText(value)))), max_length)

\* C15 as stated: _normalize_text(s, L) is the first L characters of s with
\* diacritics stripped, then every character other than ASCII letters, digits
\* and space deleted, then whitespace runs collapsed to single spaces, then
\* uppercased; so it has at most L characters, all in [A-Z0-9 ], and no two
\* consecutive spaces.
C15_TextAsStated ==
    op = "_normalize_text" =>
        /\ ret = Take(UpperAscii(CollapseSpaces(CleanedText(args.value))),
                      args.max_length)
        /\ TextIsWellFormed

\* C15 amended: as stated, with the spaces at the start and at the end
\* removed as well, before the uppercasing and the cut to L characters.
C15_TextTrimmed ==
    op = "_normalize_text" =>
        /\ ret = NormalText(args.value, args.max_length)
        /\ TextIsWellFormed

\* C15 witness: a text with spaces at both ends and runs of spaces inside has
\* been normalized.
C15_Witness ==
    /\ op = "_normalize_text"
    /\ args.value = S("  a   b  ")
    /\ args.max_length = 25
    /\ ret = S("A B")

\* id is "***" or made of characters in [A-Z0-9], 1 to 25 of them, and is
\* "***" exactly when raw has no ASCII letter or digit once its accents are
\* stripped.
IsNormalizedTxidOf(id, raw) ==
    /\ id # <<>>
    /\ Len(id) <= 25
    /\ \/ id = S("***")
       \/ \A i \in 1..Len(id) : id[i] \in 48..57 \/ id[i] \in 65..90
    /\ id = S("***")
          <=> (raw = <<>> \/ \A i \in 1..Len(remove_accents(raw)) :
                                 ~IsAsciiAlnum(remove_accents(raw)[i]))

\* The top-level fields of the call that carry tag.
FieldsTagged(tag) == SelectSeq(fields, LAMBDA f : f.tag = tag)

\* C16: _normalize_txid returns a non-empty string of at most 25 characters,
\* "***" or made of [A-Z0-9] only, and "***" exactly when the input is empty
\* or has no ASCII letter or digit after accent stripping; the tag-62 field of
\* every output holds exactly one subfield, tag 05, with that value, and is
\* never empty.
C16_Txid ==
    /\ op = "_normalize_txid" => IsNormalizedTxidOf(ret, args.value)
    /\ IsGenerate =>
          /\ Len(FieldsTagged(S("62"))) = 1
          /\ LET f == FieldsTagged(S("62"))[1]
             IN  /\ Len(f.sub) = 1
                 /\ f.sub[1].tag = S("05")
                 /\ IsNormalizedTxidOf(f.sub[1].value, args.transaction_id)
                 /\ f.value # <<>>
                 /\ f.value = S("05") \o Zfill(DecStr(Len(f.sub[1].value)), 2)
                              \o f.sub[1].value

\* C16 witness: a transaction id of punctuation alone has given the tag-62
\* field "62070503***".
C16_Witness ==
    /\ IsGenerate
    /\ args.transaction_id = S("!!!")
    /\ FieldsTagged(S("62"))[1].value = S("0503***")

\* C17: tag 59 holds the profile's normalized merchant name, 1 to 25
\* characters, when it is non-empty and "PAGAMENTO" otherwise; tag 60 holds the
\* normalized merchant city, 1 to 15 characters, when it is non-empty and
\* "BRASIL" otherwise; neither value is ever empty.
C17_NameAndCity ==
    IsGenerate =>
        \A p \in Profiles :
            svc = PixService(p[1], p[2], p[3]) =>
                LET name == NormalText(p[2], 25)
                    city == NormalText(p[3], 15)
                IN  /\ ValuesOf(S("59"))
                       = {IF name # <<>> THEN name ELSE S("PAGAMENTO")}
                    /\ ValuesOf(S("60"))
                       = {IF city # <<>> THEN city ELSE S("BRASIL")}
                    /\ \A v \in ValuesOf(S("59")) : Len(v) \in 1..25
                    /\ \A v \in ValuesOf(S("60")) : Len(v) \in 1..15
                    /\ Len(FieldsTagged(S("59"))) = 1
                    /\ Len(FieldsTagged(S("60"))) = 1

\* C17 witness: a profile whose name is punctuation alone has given
\* "PAGAMENTO" with its own city.
C17_Witness ==
    /\ IsGenerate
    /\ svc = PixService(S("11987654321"), S("!!!"), SaoPauloAccented)
    /\ ValuesOf(S("59")) = {S("PAGAMENTO")}
    /\ ValuesOf(S("60")) = {S("SAO PAULO")}

\* C18: the value of the tag-26 field is subfield 00 with "br.gov.bcb.pix",
\* then subfield 01 with the normalized key, then subfield 02 with the
\* normalized description (at most 25 characters) exactly when the description
\* normalizes to a non-empty string, and nothing else.
C18_MerchantAccount ==
    IsGenerate =>
        /\ Len(FieldsTagged(S("26"))) = 1
        /\ LET f == FieldsTagged(S("26"))[1]
               description == NormalText(args.description, 25)
               key == IF args.pix_key # <<>> THEN args.pix_key ELSE svc.pix_key
           IN  /\ Plain(f.sub)
                  = <<[tag |-> S("00"), value |-> S("br.gov.bcb.pix")],
                      [tag |-> S("01"), value |-> normalize_pix_key(key)]>>
                    \o (IF description # <<>>
                        THEN <<[tag |-> S("02"), value |-> description]>>
                        ELSE <<>>)
               /\ Len(description) <= 25
               /\ f.value = Serialize(f.sub)
               /\ StartsWith(f.value, S("0014br.gov.bcb.pix01"))

\* C18 witness: a description of punctuation alone has given no subfield 02.
C18_Witness ==
    /\ IsGenerate
    /\ args.description = S("!!!")
    /\ Len(FieldsTagged(S("26"))[1].sub) = 2
    /\ FieldsTagged(S("26"))[1].value
       = S("0014br.gov.bcb.pix0116test@example.com")

\* C19: every output ends with "6304" and exactly 4 characters in [0-9A-F]:
\* the checksum field is the last field, 8 characters long, and nothing
\* follows it.
C19_CrcLast ==
    IsGenerate =>
        /\ Len(ret) >= 8
        /\ SubSeq(ret, Len(ret) - 7, Len(ret) - 4) = S("6304")
        /\ \A i \in (Len(ret) - 3)..Len(ret) :
              ret[i] \in 48..57 \/ ret[i] \in 65..70
        /\ fields[Len(fields)].tag = S("63")
        /\ Len(fields[Len(fields)].value) = 4
        /\ SubSeq(ret, Len(ret) - 3, Len(ret)) = fields[Len(fields)].value
        /\ \A i \in 1..(Len(fields) - 1) : fields[i].tag # S("63")

\* C19 witness: a checksum below 0x1000 has been written with its leading
\* zero, "6304023F".
C19_Witness ==
    /\ IsGenerate
    /\ fields[Len(fields)] = Field(S("63"), S("023F"))
    /\ SubSeq(ret, Len(ret) - 7, Len(ret)) = S("6304023F")

\* What the call method(a) returns when it runs alone on self.
RunAlone(self, method, a) ==
    IF method = "generate_qr_code"
    THEN QrPng(generate_pix_code(self, a[1], a[2], a[3], a[4]))
    ELSE generate_pix_code(self, a[1], a[2], a[3], a[4])

\* C20: however the steps of concurrent generate_pix_code and
\* generate_qr_code calls on one shared instance interleave, no step changes
\* the instance's pix_key, merchant_name or merchant_city, and a call that
\* returns returns what it returns when run alone with the same arguments.
C20_SharedInstance ==
    [][/\ svc' = svc
       /\ \A t \in Threads :
             (calls[t].pc # "returned" /\ calls'[t].pc = "returned") =>
                 calls'[t].result
                 = RunAlone(svc, calls'[t].method, calls'[t].args)]_vars

\* C20 witness: one thread has returned the code of scenario 5 while the
\* other, called with a key of its own, is between two of its fields.
C20_Witness ==
    \E t, u \in Threads :
        /\ calls[t].pc = "returned"
        /\ calls[t].method = "generate_pix_code"
        /\ calls[t].args[4] = S("")
        /\ calls[t].result = S("00020126530014br.gov.bcb.pix0116test@example.com0211MENSALIDADE520400005303986540525.005802BR5910LOJA TESTE6009SAO PAULO62100506ABC1236304023F")
        /\ calls[u].pc = "city"
        /\ calls[u].args[4] = S("+55 (11) 98765-4321")

\* C21: generate_qr_code encodes, with error-correction level M and a border
\* of 4 modules, exactly the string generate_pix_code returns for the same
\* arguments on the same instance; so the payload text and the QR image of one
\* EventPixView page carry the same payload.
C21_QrCarriesPixCode ==
    /\ op = "generate_qr_code" =>
          /\ ret.data = generate_pix_code(svc, args.amount, args.description,
                                          args.transaction_id, args.pix_key)
          /\ ret.error_correction = "M"
          /\ ret.border = 4
    /\ (op = "EventPixView.get_context_data" /\ args.event.pix_key # <<>>) =>
          /\ ret.qr_code_base64.base64.data = ret.pix_code
          /\ ret.qr_code_base64.base64.error_correction = "M"
          /\ ret.qr_code_base64.base64.border = 4
          /\ Len(ret.pix_code) >= 8

\* C21 witness: generate_qr_code called with a key of its own has encoded the
\* code that carries that key.
C21_Witness ==
    /\ op = "generate_qr_code"
    /\ args.pix_key = S("+55 (11) 98765-4321")
    /\ svc.pix_key = S("test@example.com")
    /\ SubSeq(ret.data, 11, 46) = S("0014br.gov.bcb.pix0114+5511987654321")

\* The call of scenario 5.
IsScenario5 ==
    /\ IsGenerate
    /\ svc = PixService(S("test@example.com"), S("LOJA TESTE"), S("SAO PAULO"))
    /\ args.amount = Dec(25000)
    /\ args.description = S("Mensalidade")
    /\ args.transaction_id = S("ABC123")
    /\ args.pix_key = S("")

\* p occurs in s.
HasSubstring(s, p) ==
    \E i \in 0..(Len(s) - Len(p)) : SubSeq(s, i + 1, i + Len(p)) = p

\* The string ends with "6304" and the 4 hex digits of the CRC of what is
\* before them.
EndsWithValidCrc(s) ==
    /\ Len(s) >= 8
    /\ SubSeq(s, Len(s) - 7, Len(s) - 4) = S("6304")
    /\ SubSeq(s, Len(s) - 3, Len(s))
       = FourHex(CrcCcittFalse(Utf8(SubSeq(s, 1, Len(s) - 4))))

\* C22 as stated: the call of scenario 5 returns a string that starts with
\* "000201", contains a merchant-info block prefixed "2604" with the GUI field
\* "0014br.gov.bcb.pix", contains the amount field "540525.00", and ends with
\* "6304" and the 4 hex digits of a valid CRC.
C22_Scenario5AsStated ==
    IsScenario5 =>
        /\ StartsWith(ret, S("000201"))
        /\ HasSubstring(ret, S("26040014br.gov.bcb.pix"))
        /\ HasSubstring(ret, S("540525.00"))
        /\ EndsWithValidCrc(ret)

\* C22 amended: the same, the merchant-info block being prefixed "2653", the
\* tag 26 and the length 53 of its value.
C22_Scenario5 ==
    IsScenario5 =>
        /\ StartsWith(ret, S("000201"))
        /\ SubSeq(ret, 7, 28) = S("26530014br.gov.bcb.pix")
        /\ Len(fields[2].value) = 53
        /\ HasSubstring(ret, S("540525.00"))
        /\ fields[5] = Field(S("54"), S("25.00"))
        /\ EndsWithValidCrc(ret)

\* C22 witness: the call of scenario 5 has returned its code.
C22_Witness ==
    /\ IsScenario5
    /\ ret = S("00020126530014br.gov.bcb.pix0116test@example.com0211MENSALIDADE520400005303986540525.005802BR5910LOJA TESTE6009SAO PAULO62100506ABC1236304023F")

\* The trimmed key has no "@" and exactly 14 digits.
HasFourteenDigits ==
    /\ args.key # <<>>
    /\ ~Contains(StrippedKey, 64)
    /\ Len(KeyDigits) = 14

\* "." when present, else nothing (and so for "/" and "-")
Mark(present, c) == IF present THEN <<c>> ELSE <<>>

\* The trimmed key is written DD.DDD.DDD/DDDD-DD, each punctuation mark there
\* or not.
IsWrittenAsCnpj ==
    \E dot1, dot2, slash, hyphen \in BOOLEAN :
        StrippedKey = SubSeq(KeyDigits, 1, 2) \o Mark(dot1, 46)
                      \o SubSeq(KeyDigits, 3, 5) \o Mark(dot2, 46)
                      \o SubSeq(KeyDigits, 6, 8) \o Mark(slash, 47)
                      \o SubSeq(KeyDigits, 9, 12) \o Mark(hyphen, 45)
                      \o SubSeq(KeyDigits, 13, 14)

\* What C23 says a key of 14 digits gives.
FourteenDigitForm ==
    IF IsWrittenAsCnpj THEN KeyDigits
    ELSE IF (StrippedKey[1] = 43) \/ HasLeading55 THEN <<43>> \o KeyDigits
    ELSE IF \E i \in 1..Len(StrippedKey) : StrippedKey[i] \in {40, 41}
         THEN S("+55") \o KeyDigits
    ELSE KeyDigits

C24_KeySubfield ==
    IsGenerate =>
        LET sub01 == FieldsTagged(S("26"))[1].sub[2]
        IN  /\ sub01.tag = S("01")
            /\ sub01.value
               = normalize_pix_key(IF args.pix_key # <<>> THEN args.pix_key
                                   ELSE svc.pix_key)
            /\ normalize_pix_key(svc.pix_key) # <<>> => sub01.value # <<>>

\* s neither begins nor ends with a space.
HasNoEdgeSpace(s) == s = <<>> \/ (s[1] # 32 /\ s[Len(s)] # 32)

\* C25: the result of _normalize_text never begins or ends with a space, so
\* the values of tags 59 and 60 and of subfield 02 of tag 26 never do.
C25_NoEdgeSpaces ==
    /\ op = "_normalize_text" => HasNoEdgeSpace(ret)
    /\ IsGenerate =>
          /\ \A v \in ValuesOf(S("59")) \cup ValuesOf(S("60")) : HasNoEdgeSpace(v)
          /\ \A i \in 1..Len(FieldsTagged(S("26"))[1].sub) :
                HasNoEdgeSpace(FieldsTagged(S("26"))[1].sub[i].value)

----------------------------------------------------------------------------
(* Payments and invitations, under SiteSpec.                               *)

\* The guardians that hold a payment of the event.
PaymentsOf(guardian) ==
    {i \in DOMAIN db.payments : db.payments[i].guardian = guardian}

\* Request r takes the step that ends it at pc.
Finishes(r, pc) == requests[r].pc = pc /\ requests'[r] = NoRequest

\* C26: whatever the interleaving of the payment submissions, two of the same
\* guardian at the same time included, there is at most one payment for the
\* event and a guardian, and a submission that is saved while the guardian has
\* a payment creates none and leaves the payments as they are.
C26_OnePaymentPerGuardian ==
    /\ [](\A g \in Payers : Cardinality(PaymentsOf(g)) <= 1)
    /\ [][\A r \in Requests :
            Finishes(r, "save_payment") /\ ExistingPayment(requests[r].guardian)
                => db'.payments = db.payments]_vars

\* The guardian is the event's responsible, its creator or an admin member of
\* its class.
IsModerator(guardian) ==
    /\ guardian \in db.guardians
    /\ \/ db.event.responsible = guardian
       \/ db.event.created_by = guardian
       \/ [guardian |-> guardian, role |-> "admin"] \in db.members

\* C27: the status, confirmed_by and confirmed_at of a payment change only in
\* a confirm or reject request of a user whose guardian is the event's
\* responsible, its creator or an admin member of its class; a request of any
\* other user, one without guardian profile on an event whose responsible and
\* creator are null included, leaves the three as they are.
C27_OnlyModeratorsDecide ==
    [][\A i \in DOMAIN db.payments :
          db.payments'[i] # db.payments[i]
              => \E r \in Requests :
                    /\ Finishes(r, "confirm") \/ Finishes(r, "reject")
                    /\ requests[r].pk = i
                    /\ IsModerator(requests[r].guardian)]_vars

\* C28: after any confirm and reject calls on a payment, confirmed_by and
\* confirmed_at are set exactly when its status is CONFIRMED; a payment that
\* was confirmed and then rejected records no confirmer and no confirmation
\* time.
C28_ConfirmerIffConfirmed ==
    \A i \in DOMAIN db.payments :
        (db.payments[i].confirmed_by # None /\ db.payments[i].confirmed_at # None)
            <=> db.payments[i].status = "confirmed"

\* The guardians that are members of the class through the invitation.
JoinedByInvitation == {m.guardian : m \in db.members} \cap Invitees

\* C29: an invitation is accepted at most once: accept on an invitation that
\* is not PENDING or has expired raises ValueError, creates no member and
\* leaves the invitation as it is; and of two requests with the same token by
\* different guardians, whatever their interleaving, at most one gains
\* membership, and accepted_by names that guardian.
C29_AcceptedAtMostOnce ==
    /\ [][\A r \in Requests :
            requests[r].pc = "accept" /\ ~is_valid(requests[r].invitation)
                /\ requests'[r] # requests[r]
                => db' = db /\ requests'[r] = NoRequest]_vars
    /\ [](/\ Cardinality(JoinedByInvitation) <= 1
          /\ db.invitation.status = "accepted"
                => JoinedByInvitation = {db.invitation.accepted_by})

====
